---- MODULE Spec2Model ----
(***************************************************************************)
(* Model of src/src/components/DepreciationCalculator.jsx: the form state  *)
(* of the DepreciationCalculator component, its input handlers, and the    *)
(* scheduleData computation (basis allocation, Section 179, bonus          *)
(* depreciation, the 40-year loop).                                        *)
(*                                                                         *)
(* Numbers.  A JavaScript number is modelled as an exact rational <<n, d>> *)
(* in lowest terms with d >= 1; the decimal literals of the rate tables    *)
(* denote the rationals they spell (0.1152 is 1152/10000).  The rounding   *)
(* of IEEE-754 doubles is not modelled.  NaN and undefined are the two     *)
(* values with denominator 0.                                              *)
(***************************************************************************)
EXTENDS Integers, Sequences, FiniteSets, TLC

\* ------------------------------------------------------------- numbers

NaN == <<0, 0>>
Undefined == <<1, 0>>

Abs(n) == IF n < 0 THEN -n ELSE n

RECURSIVE GCD(_, _)
GCD(a, b) == IF b = 0 THEN a ELSE GCD(b, a % b)

\* The rational n/d (d >= 1) in lowest terms.
Norm(n, d) == LET g == GCD(Abs(n), d) IN <<n \div g, d \div g>>

Num(n) == <<n, 1>>
Zero == <<0, 1>>

IsNumber(x) == x[2] >= 1

RAdd(a, b) ==
    IF a[1] = 0 THEN b
    ELSE IF b[1] = 0 THEN a
    ELSE IF a[2] = b[2] THEN Norm(a[1] + b[1], a[2])
    ELSE LET g == GCD(a[2], b[2])
         IN  Norm(a[1] * (b[2] \div g) + b[1] * (a[2] \div g), (a[2] \div g) * b[2])

RNeg(a) == <<-a[1], a[2]>>

RSub(a, b) == RAdd(a, RNeg(b))

RMul(a, b) ==
    IF a[1] = 0 \/ b[1] = 0 THEN Zero
    ELSE LET g1 == GCD(Abs(a[1]), b[2])
             g2 == GCD(Abs(b[1]), a[2])
         IN  <<(a[1] \div g1) * (b[1] \div g2), (a[2] \div g2) * (b[2] \div g1)>>

\* a / b for b # 0.
RDiv(a, b) ==
    IF b[1] > 0 THEN RMul(a, <<b[2], b[1]>>) ELSE RMul(a, <<-b[2], -b[1]>>)

RLt(a, b) == a[1] * b[2] < b[1] * a[2]

RLe(a, b) == a[1] * b[2] <= b[1] * a[2]

\* Math.min and Math.max on numbers.
MathMin(a, b) == IF RLt(b, a) THEN b ELSE a

MathMax(a, b) == IF RLt(a, b) THEN b ELSE a

\* The JavaScript idiom  x || 0 : undefined, NaN and 0 all give 0.
OrZero(x) == IF IsNumber(x) THEN x ELSE Zero

\* ------------------------------------------------------------- tables

\* The rate tables hold decimal literals of at most five places; they are
\* written here in units of 0.00001.
Rate(r) == Norm(r, 100000)

Life5 == Num(5)
Life7 == Num(7)
Life15 == Num(15)
Life27_5 == <<55, 2>>
Life39 == Num(39)

MACRS_RATES ==
    [life \in {Life5, Life7, Life15, Life27_5, Life39} |->
        CASE life = Life5 -> <<20000, 32000, 19200, 11520, 11520, 5760>>
          [] life = Life7 -> <<14290, 24490, 17490, 12490, 8930, 8920, 8930, 4460>>
          [] life = Life15 -> <<5000, 9500, 8550, 7700, 6930, 6230, 5900, 5900,
                                5910, 5900, 5910, 5900, 5910, 5900, 5910, 2950>>
          [] life = Life27_5 ->
                [i \in 1..28 |-> IF i - 1 = 0 THEN 3636
                                 ELSE IF i - 1 = 27 THEN 1515 ELSE 3636]
          [] life = Life39 ->
                [i \in 1..40 |-> IF i - 1 = 0 THEN 2461
                                 ELSE IF i - 1 = 39 THEN 107 ELSE 2564]]

\* BONUS_RATES with the phase-down starting one year late.
BONUS_RATES_OneYearLate ==
    [y \in 2023..2028 |->
        CASE y = 2023 -> 100
          [] y = 2024 -> 80
          [] y = 2025 -> 60
          [] y = 2026 -> 40
          [] y = 2027 -> 20
          [] y = 2028 -> 0]

\* Bonus rates in percent.
BONUS_RATES ==
    [y \in 2022..2027 |->
        CASE y = 2022 -> 100
          [] y = 2023 -> 80
          [] y = 2024 -> 60
          [] y = 2025 -> 40
          [] y = 2026 -> 20
          [] y = 2027 -> 0]

\* ASSET_CATEGORIES with land given the life of the commercial category.
ASSET_CATEGORIES_LandDepreciable ==
    << [id |-> "land", life |-> Life39],
       [id |-> "5year", life |-> Life5],
       [id |-> "7year", life |-> Life7],
       [id |-> "15year", life |-> Life15],
       [id |-> "residential", life |-> Life27_5],
       [id |-> "commercial", life |-> Life39] >>

ASSET_CATEGORIES ==
    << [id |-> "land", life |-> Zero],
       [id |-> "5year", life |-> Life5],
       [id |-> "7year", life |-> Life7],
       [id |-> "15year", life |-> Life15],
       [id |-> "residential", life |-> Life27_5],
       [id |-> "commercial", life |-> Life39] >>

CatIds == {ASSET_CATEGORIES[i].id : i \in 1..Len(ASSET_CATEGORIES)}

eligible179 == <<"5year", "7year", "15year">>

eligibleBonus == <<"5year", "7year", "15year">>

years == 40

\* ------------------------------------------------------------- state

VARIABLES
    purchaseDate,       \* [year, jan1]: the date of the date input
    tzWest,             \* the browser's time zone lies west of UTC
    totalCost,
    allocations,
    propertyType,
    useBonus,
    useSection179,
    section179Amount,
    depreciationMethod,
    pc,                 \* position of the scheduleData callback
    categorySchedules,  \* local of scheduleData
    remaining179,       \* local of scheduleData
    schedule,           \* local of scheduleData
    events              \* number of input events handled so far

form == <<purchaseDate, tzWest, totalCost, allocations, propertyType, useBonus,
          useSection179, section179Amount, depreciationMethod>>

locals == <<categorySchedules, remaining179, schedule>>

vars == <<form, pc, locals, events>>

\* Bound on the number of input events of one run.
MaxEvents == 2

\* new Date("YYYY-MM-DD") is midnight UTC and getFullYear() is local time:
\* west of UTC, the first of January belongs to the year before.
purchaseYear ==
    IF tzWest /\ purchaseDate.jan1 THEN purchaseDate.year - 1 ELSE purchaseDate.year

\* BONUS_RATES[purchaseYear] || 0, as a fraction.
bonusRate ==
    IF purchaseYear \in DOMAIN BONUS_RATES
    THEN Norm(BONUS_RATES[purchaseYear], 100)
    ELSE Zero

NoCategorySchedules == [c \in {} |-> Zero]

Init ==
    /\ purchaseDate = [year |-> 2024, jan1 |-> TRUE]
    /\ tzWest \in BOOLEAN
    /\ totalCost = Num(1000000)
    /\ allocations = ("land" :> Num(15)) @@ ("5year" :> Num(8)) @@ ("7year" :> Num(5))
                      @@ ("15year" :> Num(12)) @@ ("residential" :> Num(0))
                      @@ ("commercial" :> Num(60))
    /\ propertyType = "commercial"
    /\ useBonus = TRUE
    /\ useSection179 = FALSE
    /\ section179Amount = Num(0)
    /\ depreciationMethod = "macrs"
    /\ pc = "basis"
    /\ categorySchedules = NoCategorySchedules
    /\ remaining179 = Undefined
    /\ schedule = <<>>
    /\ events = 0

\* ------------------------------------------------------------- scheduleData

\* (allocations[cat.id] / 100) * totalCost
InitialBasis(alloc, cost) == RMul(RDiv(alloc, Num(100)), cost)

NewCategorySchedule(alloc, cost) ==
    [ basis |-> InitialBasis(alloc, cost),
      yearlyDepreciation |-> <<>>,
      cumulative |-> Zero,
      section179 |-> Undefined,
      bonusDepreciation |-> Undefined ]

\* AllocateBasis rescaling the percentages to sum to 100 first.
AllocateBasis_Rescaled ==
    /\ pc = "basis"
    /\ LET sum == RAdd(RAdd(RAdd(allocations["land"], allocations["5year"]),
                            RAdd(allocations["7year"], allocations["15year"])),
                       RAdd(allocations["commercial"], allocations["residential"]))
           scaled(a) == IF sum = Zero THEN a ELSE RDiv(RMul(a, Num(100)), sum)
       IN  categorySchedules' =
             [c \in CatIds |-> NewCategorySchedule(scaled(allocations[c]), totalCost)]
    /\ pc' = "section179"
    /\ UNCHANGED <<form, remaining179, schedule, events>>

AllocateBasis ==
    /\ pc = "basis"
    /\ categorySchedules' =
            [c \in CatIds |-> NewCategorySchedule(allocations[c], totalCost)]
    /\ pc' = "section179"
    /\ UNCHANGED <<form, remaining179, schedule, events>>

\* Section179Step without the test remaining179 > 0.
Section179Step_NoGuard(st, catId) ==
    LET catBasis == st.cs[catId].basis
        deduction == MathMin(st.remaining179, catBasis)
    IN  [ cs |-> [st.cs EXCEPT ![catId].section179 = deduction,
                               ![catId].basis = RSub(@, deduction)],
          remaining179 |-> RSub(st.remaining179, deduction) ]

\* Section179Step without the carry: the remaining amount is not reduced.
Section179Step_NoCarry(st, catId) ==
    IF RLt(Zero, st.remaining179)
    THEN LET catBasis == st.cs[catId].basis
             deduction == MathMin(st.remaining179, catBasis)
         IN  [ cs |-> [st.cs EXCEPT ![catId].section179 = deduction,
                                    ![catId].basis = RSub(@, deduction)],
               remaining179 |-> st.remaining179 ]
    ELSE st

\* Section179Step without the cap at the category's basis.
Section179Step_NoCap(st, catId) ==
    IF RLt(Zero, st.remaining179)
    THEN LET deduction == st.remaining179
         IN  [ cs |-> [st.cs EXCEPT ![catId].section179 = deduction,
                                    ![catId].basis = RSub(@, deduction)],
               remaining179 |-> RSub(st.remaining179, deduction) ]
    ELSE st

\* One iteration of eligible179.forEach on st = [cs, remaining179].
Section179Step(st, catId) ==
    IF RLt(Zero, st.remaining179)
    THEN LET catBasis == st.cs[catId].basis
             deduction == MathMin(st.remaining179, catBasis)
         IN  [ cs |-> [st.cs EXCEPT ![catId].section179 = deduction,
                                    ![catId].basis = RSub(@, deduction)],
               remaining179 |-> RSub(st.remaining179, deduction) ]
    ELSE st

RECURSIVE Section179Loop(_, _)
Section179Loop(st, i) ==
    IF i > Len(eligible179) THEN st
    ELSE Section179Loop(Section179Step(st, eligible179[i]), i + 1)

\* let remaining179 = useSection179 ? section179Amount : 0, then the loop.
Section179Phase(cs, use179, amount) ==
    Section179Loop([cs |-> cs, remaining179 |-> IF use179 THEN amount ELSE Zero], 1)

ApplySection179 ==
    /\ pc = "section179"
    /\ LET end == Section179Phase(categorySchedules, useSection179, section179Amount)
       IN  /\ categorySchedules' = end.cs
           /\ remaining179' = end.remaining179
    /\ pc' = "bonus"
    /\ UNCHANGED <<form, schedule, events>>

\* BonusStep taking the bonus on the basis before Section 179.
BonusStep_BeforeSection179(cs, catId, useB, rate) ==
    IF useB /\ RLt(Zero, rate)
    THEN LET bonus == RMul(RAdd(cs[catId].basis, OrZero(cs[catId].section179)), rate)
         IN  [cs EXCEPT ![catId].bonusDepreciation = bonus,
                        ![catId].basis = RSub(@, bonus)]
    ELSE cs

\* One iteration of eligibleBonus.forEach.
\* BonusStep recording the bonus without taking it off the basis.
BonusStep_KeepsBasis(cs, catId, useB, rate) ==
    IF useB /\ RLt(Zero, rate)
    THEN LET bonus == RMul(cs[catId].basis, rate)
         IN  [cs EXCEPT ![catId].bonusDepreciation = bonus]
    ELSE cs

BonusStep(cs, catId, useB, rate) ==
    IF useB /\ RLt(Zero, rate)
    THEN LET bonus == RMul(cs[catId].basis, rate)
         IN  [cs EXCEPT ![catId].bonusDepreciation = bonus,
                        ![catId].basis = RSub(@, bonus)]
    ELSE cs

RECURSIVE BonusLoop(_, _, _, _)
BonusLoop(cs, i, useB, rate) ==
    IF i > Len(eligibleBonus) THEN cs
    ELSE BonusLoop(BonusStep(cs, eligibleBonus[i], useB, rate), i + 1, useB, rate)

ApplyBonus ==
    /\ pc = "bonus"
    /\ categorySchedules' = BonusLoop(categorySchedules, 1, useBonus, bonusRate)
    /\ pc' = "years"
    /\ UNCHANGED <<form, remaining179, schedule, events>>

\* MacrsDepreciation reusing the last rate of the table past its end.
MacrsDepreciation_PastTable(cat, catData, year) ==
    IF cat.life \in DOMAIN MACRS_RATES
    THEN LET rates == MACRS_RATES[cat.life]
         IN  RMul(catData.basis,
                  Rate(rates[IF year < Len(rates) THEN year + 1 ELSE Len(rates)]))
    ELSE Zero

\* rates && year < rates.length ? basis * rates[year] : 0
MacrsDepreciation(cat, catData, year) ==
    IF cat.life \in DOMAIN MACRS_RATES /\ year < Len(MACRS_RATES[cat.life])
    THEN RMul(catData.basis, Rate(MACRS_RATES[cat.life][year + 1]))
    ELSE Zero

\* year < life ? basis / life : 0
StraightLineDepreciation(cat, catData, year) ==
    IF RLt(Num(year), cat.life) THEN RDiv(catData.basis, cat.life) ELSE Zero

PeriodicDepreciation(cat, catData, year, method) ==
    IF method = "macrs"
    THEN MacrsDepreciation(cat, catData, year)
    ELSE StraightLineDepreciation(cat, catData, year)

\* FirstYearDeductions added in the rows of index 0 and 1.
FirstYearDeductions_TwoRows(catData, year) ==
    IF year <= 1
    THEN RAdd(OrZero(catData.section179), OrZero(catData.bonusDepreciation))
    ELSE Zero

\* First-year special deductions of a category in the row of index year.
FirstYearDeductions(catData, year) ==
    IF year = 0
    THEN RAdd(OrZero(catData.section179), OrZero(catData.bonusDepreciation))
    ELSE Zero

YearDepreciation(cat, catData, year, method) ==
    RAdd(PeriodicDepreciation(cat, catData, year, method),
         FirstYearDeductions(catData, year))

\* One iteration of ASSET_CATEGORIES.forEach inside the year loop, on
\* st = [cs, yearData].
CategoryStep(st, cat, year, method) ==
    IF cat.life = Zero
    THEN [st EXCEPT !.yearData.depreciation = (cat.id :> Zero) @@ @]
    ELSE LET yearDepreciation == YearDepreciation(cat, st.cs[cat.id], year, method)
         IN  [ cs |-> [st.cs EXCEPT
                        ![cat.id].yearlyDepreciation = Append(@, yearDepreciation),
                        ![cat.id].cumulative = RAdd(@, yearDepreciation)],
               yearData |-> [st.yearData EXCEPT
                        !.depreciation = (cat.id :> yearDepreciation) @@ @,
                        !.totalDepreciation = RAdd(@, yearDepreciation)] ]

RECURSIVE CategoryLoop(_, _, _, _)
CategoryLoop(st, i, year, method) ==
    IF i > Len(ASSET_CATEGORIES) THEN st
    ELSE CategoryLoop(CategoryStep(st, ASSET_CATEGORIES[i], year, method),
                      i + 1, year, method)

\* NewYearData numbering the rows from 1.
NewYearData_OneBased(pYear, year) ==
    [ year |-> pYear + year + 1,
      depreciation |-> NoCategorySchedules,
      totalDepreciation |-> Zero ]

NewYearData(pYear, year) ==
    [ year |-> pYear + year,
      depreciation |-> NoCategorySchedules,
      totalDepreciation |-> Zero ]

\* The for loop over the years, on st = [cs, schedule, year].
RECURSIVE YearLoop(_, _, _)
YearLoop(st, pYear, method) ==
    IF ~(st.year < years) THEN st
    ELSE LET row == CategoryLoop([cs |-> st.cs, yearData |-> NewYearData(pYear, st.year)],
                                 1, st.year, method)
         IN  YearLoop([ cs |-> row.cs,
                        schedule |-> Append(st.schedule, row.yearData),
                        year |-> st.year + 1 ],
                      pYear, method)

ComputeYears ==
    /\ pc = "years"
    /\ LET end == YearLoop([cs |-> categorySchedules, schedule |-> schedule, year |-> 0],
                           purchaseYear, depreciationMethod)
       IN  /\ categorySchedules' = end.cs
           /\ schedule' = end.schedule
    /\ pc' = "done"
    /\ UNCHANGED <<form, remaining179, events>>

\* The whole useMemo callback, as a function of its dependency list.
scheduleData(allocs, cost, pYear, useB, rate, use179, amount, method) ==
    LET cs0 == [c \in CatIds |-> NewCategorySchedule(allocs[c], cost)]
        cs1 == Section179Phase(cs0, use179, amount).cs
        cs2 == BonusLoop(cs1, 1, useB, rate)
        end == YearLoop([cs |-> cs2, schedule |-> <<>>, year |-> 0], pYear, method)
    IN  [schedule |-> end.schedule, categorySchedules |-> end.cs]

\* ------------------------------------------------------------- input handlers

\* The text of an input element: <<"n", k>> is the decimal numeral of the
\* integer k, <<"x", 0>> a text that starts no number (the empty text, "abc").
parseFloat(value) == IF value[1] = "n" THEN Num(value[2]) ELSE NaN

DateInputs ==
    {[year |-> y, jan1 |-> FALSE] : y \in 2021..2028} \cup {[year |-> 2024, jan1 |-> TRUE]}

CostInputs == {<<"n", 1000000>>, <<"n", 0>>, <<"n", -1000>>, <<"x", 0>>}

Section179Inputs == {<<"n", 100000>>, <<"n", 300000>>, <<"n", -5000>>, <<"x", 0>>}

AllocationInputs == {<<"n", 0>>, <<"n", 20>>, <<"n", 150>>, <<"n", -5>>, <<"x", 0>>}

\* Handled with the rows of the previous computation kept: schedule lives
\* outside the callback and is not emptied.
Handled_KeepsSchedule ==
    /\ events' = events + 1
    /\ pc' = "basis"
    /\ categorySchedules' = NoCategorySchedules
    /\ remaining179' = Undefined
    /\ schedule' = schedule

\* An input event is handled between two renders; the render that follows it
\* runs the scheduleData callback from its first line.
Handled ==
    /\ events' = events + 1
    /\ pc' = "basis"
    /\ categorySchedules' = NoCategorySchedules
    /\ remaining179' = Undefined
    /\ schedule' = <<>>

CanHandle == pc = "done" /\ events < MaxEvents

SetPurchaseDate(value) ==
    /\ CanHandle
    /\ purchaseDate' = value
    /\ Handled
    /\ UNCHANGED <<tzWest, totalCost, allocations, propertyType, useBonus,
                   useSection179, section179Amount, depreciationMethod>>

SetTotalCost(value) ==
    /\ CanHandle
    /\ totalCost' = OrZero(parseFloat(value))
    /\ Handled
    /\ UNCHANGED <<purchaseDate, tzWest, allocations, propertyType, useBonus,
                   useSection179, section179Amount, depreciationMethod>>

\* SetPropertyType leaving the allocations as they are.
SetPropertyType_KeepsAllocations(value) ==
    /\ CanHandle
    /\ propertyType' = value
    /\ Handled
    /\ UNCHANGED <<purchaseDate, tzWest, totalCost, allocations, useBonus,
                   useSection179, section179Amount, depreciationMethod>>

SetPropertyType(value) ==
    /\ CanHandle
    /\ propertyType' = value
    /\ allocations' =
          IF value = "residential"
          THEN [allocations EXCEPT
                  !["commercial"] = Zero,
                  !["residential"] = RAdd(allocations["commercial"],
                                          allocations["residential"])]
          ELSE [allocations EXCEPT
                  !["residential"] = Zero,
                  !["commercial"] = RAdd(allocations["commercial"],
                                         allocations["residential"])]
    /\ Handled
    /\ UNCHANGED <<purchaseDate, tzWest, totalCost, useBonus, useSection179,
                   section179Amount, depreciationMethod>>

SetDepreciationMethod(value) ==
    /\ CanHandle
    /\ depreciationMethod' = value
    /\ Handled
    /\ UNCHANGED <<purchaseDate, tzWest, totalCost, allocations, propertyType,
                   useBonus, useSection179, section179Amount>>

SetUseBonus(checked) ==
    /\ CanHandle
    /\ useBonus' = checked
    /\ Handled
    /\ UNCHANGED <<purchaseDate, tzWest, totalCost, allocations, propertyType,
                   useSection179, section179Amount, depreciationMethod>>

SetUseSection179(checked) ==
    /\ CanHandle
    /\ useSection179' = checked
    /\ Handled
    /\ UNCHANGED <<purchaseDate, tzWest, totalCost, allocations, propertyType,
                   useBonus, section179Amount, depreciationMethod>>

\* The amount input is rendered only while useSection179 is checked.
SetSection179Amount(value) ==
    /\ CanHandle
    /\ useSection179
    /\ section179Amount' = OrZero(parseFloat(value))
    /\ Handled
    /\ UNCHANGED <<purchaseDate, tzWest, totalCost, allocations, propertyType,
                   useBonus, useSection179, depreciationMethod>>

isDisabled(id) ==
    \/ id = "residential" /\ propertyType = "commercial"
    \/ id = "commercial" /\ propertyType = "residential"

\* updateAllocation storing the parsed value as it is.
updateAllocation_Unclamped(id, value) ==
    /\ CanHandle
    /\ ~isDisabled(id)
    /\ LET newValue == OrZero(parseFloat(value))
       IN  allocations' = [allocations EXCEPT ![id] = newValue]
    /\ Handled
    /\ UNCHANGED <<purchaseDate, tzWest, totalCost, propertyType, useBonus,
                   useSection179, section179Amount, depreciationMethod>>

updateAllocation(id, value) ==
    /\ CanHandle
    /\ ~isDisabled(id)
    /\ LET newValue == MathMax(Zero, MathMin(Num(100), OrZero(parseFloat(value))))
       IN  allocations' = [allocations EXCEPT ![id] = newValue]
    /\ Handled
    /\ UNCHANGED <<purchaseDate, tzWest, totalCost, propertyType, useBonus,
                   useSection179, section179Amount, depreciationMethod>>

Next ==
    \/ AllocateBasis
    \/ ApplySection179
    \/ ApplyBonus
    \/ ComputeYears
    \/ \E value \in DateInputs : SetPurchaseDate(value)
    \/ \E value \in CostInputs : SetTotalCost(value)
    \/ \E value \in {"commercial", "residential"} : SetPropertyType(value)
    \/ \E value \in {"macrs", "straight"} : SetDepreciationMethod(value)
    \/ \E checked \in BOOLEAN : SetUseBonus(checked)
    \/ \E checked \in BOOLEAN : SetUseSection179(checked)
    \/ \E value \in Section179Inputs : SetSection179Amount(value)
    \/ \E id \in CatIds, value \in AllocationInputs : updateAllocation(id, value)

Spec == Init /\ [][Next]_vars

\* ------------------------------------------------------------- properties

Eligible == {"5year", "7year", "15year"}

Depreciable == CatIds \ {"land"}

\* allocation% * totalCost / 100, the basis a category starts from.
StartBasis(c) == RMul(RMul(allocations[c], totalCost), <<1, 100>>)

Taken179(c) == OrZero(categorySchedules[c].section179)

TakenBonus(c) == OrZero(categorySchedules[c].bonusDepreciation)

NonNegativeInputs == RLe(Zero, totalCost) /\ RLe(Zero, section179Amount)

DefaultAllocations ==
    /\ allocations["land"] = Num(15)
    /\ allocations["5year"] = Num(8)
    /\ allocations["7year"] = Num(5)
    /\ allocations["15year"] = Num(12)
    /\ allocations["residential"] = Num(0)
    /\ allocations["commercial"] = Num(60)

\* C1: with non-negative cost and elected amount, after the Section 179 step
\* the 5-year, 7-year and 15-year categories hold, in that order,
\* min(remaining, basis) of a remaining amount that starts at the elected
\* amount and shrinks by each deduction, each basis is reduced by its
\* deduction, and a later category receives a positive amount only if every
\* earlier category's basis was reduced to 0.
C1_Section179InOrder ==
    (pc = "bonus" /\ NonNegativeInputs) =>
        LET elected == IF useSection179 THEN section179Amount ELSE Zero
            d5 == MathMin(elected, StartBasis("5year"))
            r5 == RSub(elected, d5)
            d7 == MathMin(r5, StartBasis("7year"))
            r7 == RSub(r5, d7)
            d15 == MathMin(r7, StartBasis("15year"))
        IN  /\ Taken179("5year") = d5
            /\ Taken179("7year") = d7
            /\ Taken179("15year") = d15
            /\ remaining179 = RSub(r7, d15)
            /\ \A c \in Eligible :
                  categorySchedules[c].basis = RSub(StartBasis(c), Taken179(c))
            /\ RLt(Zero, Taken179("7year")) => categorySchedules["5year"].basis = Zero
            /\ RLt(Zero, Taken179("15year")) =>
                  /\ categorySchedules["5year"].basis = Zero
                  /\ categorySchedules["7year"].basis = Zero

\* Cost 1,000,000, allocations 8/5/12, election 100,000: 80,000 / 20,000 / 0.
C1_Witness ==
    /\ pc = "bonus"
    /\ totalCost = Num(1000000)
    /\ DefaultAllocations
    /\ useSection179
    /\ section179Amount = Num(100000)
    /\ categorySchedules["5year"].section179 = Num(80000)
    /\ categorySchedules["7year"].section179 = Num(20000)
    /\ categorySchedules["15year"].section179 = Undefined
    /\ categorySchedules["5year"].basis = Zero
    /\ categorySchedules["7year"].basis = Num(30000)

Total179 == RAdd(RAdd(Taken179("5year"), Taken179("7year")), Taken179("15year"))

EligibleStartBasis ==
    RAdd(RAdd(StartBasis("5year"), StartBasis("7year")), StartBasis("15year"))

After179 == pc \in {"bonus", "years", "done"}

AfterBonus == pc \in {"years", "done"}

\* C2 as stated, on the inputs of non-negative total cost: the total Section
\* 179 amount deducted is at most min(requested amount, sum of the three
\* eligible initial bases), and it is 0 when Section 179 is not elected.
C2_TotalAtMostRequested ==
    (After179 /\ RLe(Zero, totalCost)) =>
        /\ RLe(Total179, MathMin(section179Amount, EligibleStartBasis))
        /\ ~useSection179 => Total179 = Zero

\* C2 amended: the bound min(requested, eligible basis) holds whenever total
\* cost and requested amount are non-negative; for every input the total is at
\* most max(0, min(requested, eligible basis)); not elected, the total is 0.
C2_TotalAtMostRequestedNonNegative ==
    After179 =>
        /\ NonNegativeInputs /\ useSection179 =>
              RLe(Total179, MathMin(section179Amount, EligibleStartBasis))
        /\ useSection179 =>
              RLe(Total179, MathMax(Zero, MathMin(section179Amount, EligibleStartBasis)))
        /\ ~useSection179 => Total179 = Zero

\* An election of 300,000 against an eligible basis of 250,000 deducts 250,000.
C2_Witness ==
    /\ pc = "done"
    /\ useSection179
    /\ section179Amount = Num(300000)
    /\ EligibleStartBasis = Num(250000)
    /\ Total179 = Num(250000)

\* The bonus rate of the placed-in-service year, from the table of the claim.
PublishedBonusRate(y) ==
    CASE y = 2022 -> <<1, 1>>
      [] y = 2023 -> <<4, 5>>
      [] y = 2024 -> <<3, 5>>
      [] y = 2025 -> <<2, 5>>
      [] y = 2026 -> <<1, 5>>
      [] OTHER -> Zero

\* C3: with bonus elected at a positive rate, each of the 5-year, 7-year and
\* 15-year categories gets bonus = (its own basis after Section 179) * rate and
\* its basis is reduced by exactly that amount; land, residential and
\* commercial never hold a Section 179 or bonus amount.
C3_BonusPerCategory ==
    /\ (AfterBonus /\ useBonus /\ RLt(Zero, PublishedBonusRate(purchaseYear))) =>
          \A c \in Eligible :
            LET post179 == RSub(StartBasis(c), Taken179(c))
            IN  /\ categorySchedules[c].bonusDepreciation =
                      RMul(post179, PublishedBonusRate(purchaseYear))
                /\ categorySchedules[c].basis =
                      RSub(post179, categorySchedules[c].bonusDepreciation)
    /\ pc # "basis" =>
          \A c \in CatIds \ Eligible :
            /\ categorySchedules[c].section179 = Undefined
            /\ categorySchedules[c].bonusDepreciation = Undefined

\* Cost 1,000,000, 5-year 8%, year 2024, no Section 179: 80,000 / 48,000 / 32,000.
C3_Witness ==
    /\ pc = "done"
    /\ totalCost = Num(1000000)
    /\ allocations["5year"] = Num(8)
    /\ purchaseYear = 2024
    /\ useBonus /\ ~useSection179
    /\ StartBasis("5year") = Num(80000)
    /\ categorySchedules["5year"].bonusDepreciation = Num(48000)
    /\ categorySchedules["5year"].basis = Num(32000)

CategoryOf(c) == CHOOSE cat \in {ASSET_CATEGORIES[i] : i \in 1..Len(ASSET_CATEGORIES)} :
                    cat.id = c

\* C4: in the finished schedule, for every depreciable category the row of
\* year index 0 is the periodic amount plus the category's Section 179 and
\* bonus amounts, and every row of index 1..39 is the periodic amount alone.
C4_SpecialsInFirstRowOnly ==
    pc = "done" =>
        \A c \in Depreciable : \A y \in 0..(years - 1) :
            schedule[y + 1].depreciation[c] =
                LET periodic == PeriodicDepreciation(CategoryOf(c), categorySchedules[c],
                                                     y, depreciationMethod)
                IN  IF y = 0
                    THEN RAdd(periodic, RAdd(Taken179(c), TakenBonus(c)))
                    ELSE periodic

\* 32,000 * 0.2 + 48,000 = 54,400 in the first row, 32,000 * 0.32 in the second.
C4_Witness ==
    /\ pc = "done"
    /\ depreciationMethod = "macrs"
    /\ categorySchedules["5year"].basis = Num(32000)
    /\ categorySchedules["5year"].bonusDepreciation = Num(48000)
    /\ schedule[1].depreciation["5year"] = Num(54400)
    /\ schedule[2].depreciation["5year"] = Num(10240)

\* The sum of the first n entries of a sequence of numbers.
RECURSIVE SumFirst(_, _)
SumFirst(seq, n) == IF n = 0 THEN Zero ELSE RAdd(SumFirst(seq, n - 1), seq[n])

\* The amounts of category c in the rows of the schedule, in row order.
Column(c) == [i \in 1..Len(schedule) |-> schedule[i].depreciation[c]]

\* The periodic part of category c's amount in the row of index y: the row's
\* amount less the Section 179 and bonus amounts the first row carries.
PeriodicInRow(c, y) ==
    IF y = 0
    THEN RSub(schedule[1].depreciation[c], RAdd(Taken179(c), TakenBonus(c)))
    ELSE schedule[y + 1].depreciation[c]

LifeOf(c) == CategoryOf(c).life

\* C5 as stated: under MACRS, for every depreciable category the rate table
\* lies inside the 40-row horizon and the periodic amounts over the length of
\* the table sum to the basis left after Section 179 and bonus.
C5_MacrsRecoversBasis ==
    (pc = "done" /\ depreciationMethod = "macrs") =>
        \A c \in Depreciable :
            LET n == Len(MACRS_RATES[LifeOf(c)])
            IN  /\ n <= years
                /\ SumFirst([y \in 1..n |-> PeriodicInRow(c, y - 1)], n)
                      = categorySchedules[c].basis

\* C6 as stated: under the straight-line method a category of life L and
\* remaining basis B has periodic amount B/L in the rows of index 0..L-1 and 0
\* in every later row.
C6_StraightLineOverLife ==
    (pc = "done" /\ depreciationMethod = "straight") =>
        \A c \in Depreciable : \A y \in 0..(years - 1) :
            PeriodicInRow(c, y) =
                IF RLe(Num(y), RSub(LifeOf(c), Num(1)))
                THEN RDiv(categorySchedules[c].basis, LifeOf(c))
                ELSE Zero

\* C7: land has amount 0 in each of the 40 rows, adds nothing to a row's
\* total (the total is the sum over the five depreciable categories), and
\* holds no Section 179 amount, bonus amount or cumulative depreciation.
C7_LandNeverDepreciates ==
    /\ pc = "done" =>
          /\ Len(schedule) = years
          /\ \A i \in 1..Len(schedule) :
                /\ schedule[i].depreciation["land"] = Zero
                /\ schedule[i].totalDepreciation =
                      RAdd(RAdd(RAdd(RAdd(schedule[i].depreciation["5year"],
                                          schedule[i].depreciation["7year"]),
                                     schedule[i].depreciation["15year"]),
                                schedule[i].depreciation["residential"]),
                           schedule[i].depreciation["commercial"])
    /\ pc # "basis" =>
          /\ categorySchedules["land"].section179 = Undefined
          /\ categorySchedules["land"].bonusDepreciation = Undefined
          /\ categorySchedules["land"].cumulative = Zero
          /\ categorySchedules["land"].basis = StartBasis("land")

\* A finished schedule for a land allocation of 15% of 1,000,000.
C7_Witness ==
    /\ pc = "done"
    /\ categorySchedules["land"].basis = Num(150000)
    /\ schedule[1].depreciation["land"] = Zero
    /\ schedule[40].depreciation["land"] = Zero
    /\ RLt(Zero, schedule[1].totalDepreciation)

\* C8: the finished schedule has exactly 40 rows; row i has year = placed-in-
\* service year + i, an amount for each of the 6 categories, and a total equal
\* to the sum of its amounts; each category's cumulative figure is the sum of
\* its amounts over the 40 rows.
C8_ScheduleShape ==
    pc = "done" =>
        /\ Len(schedule) = 40
        /\ \A i \in 0..(Len(schedule) - 1) :
              /\ schedule[i + 1].year = purchaseYear + i
              /\ DOMAIN schedule[i + 1].depreciation = CatIds
              /\ \A c \in CatIds : IsNumber(schedule[i + 1].depreciation[c])
              /\ schedule[i + 1].totalDepreciation =
                    SumFirst([k \in 1..Len(ASSET_CATEGORIES) |->
                                schedule[i + 1].depreciation[ASSET_CATEGORIES[k].id]],
                             Len(ASSET_CATEGORIES))
        /\ \A c \in CatIds :
              categorySchedules[c].cumulative = SumFirst(Column(c), Len(schedule))

\* A finished schedule placed in service in 2025 with a 5-year category that
\* has accumulated its whole 80,000.
C8_Witness ==
    /\ pc = "done"
    /\ purchaseYear = 2025
    /\ schedule[1].year = 2025
    /\ schedule[40].year = 2064
    /\ categorySchedules["5year"].cumulative = Num(80000)

\* C9 as stated: with total cost <= 0 every amount of the result is zero.
C9_NonPositiveCostAllZero ==
    (pc = "done" /\ RLe(totalCost, Zero)) =>
        /\ \A c \in CatIds :
              /\ categorySchedules[c].basis = Zero
              /\ Taken179(c) = Zero
              /\ TakenBonus(c) = Zero
              /\ categorySchedules[c].cumulative = Zero
        /\ \A i \in 1..Len(schedule) :
              /\ schedule[i].totalDepreciation = Zero
              /\ \A c \in CatIds : schedule[i].depreciation[c] = Zero

\* C10: the bonus rate is 1.00, 0.80, 0.60, 0.40, 0.20 for 2022..2026, never
\* increases from one year of the table to the next, and is 0 for 2027 and for
\* every year outside the table; when the rate is 0 no basis is reduced by
\* bonus, and the finished result of an input that elects bonus is the result
\* the same input gives with bonus not elected.
C10_BonusRateTable ==
    /\ bonusRate = PublishedBonusRate(purchaseYear)
    /\ \A y \in DOMAIN BONUS_RATES :
          (y + 1) \in DOMAIN BONUS_RATES => BONUS_RATES[y + 1] <= BONUS_RATES[y]
    /\ (AfterBonus /\ PublishedBonusRate(purchaseYear) = Zero) =>
          \A c \in CatIds :
            /\ TakenBonus(c) = Zero
            /\ categorySchedules[c].basis = RSub(StartBasis(c), Taken179(c))
    /\ (pc = "done" /\ useBonus /\ PublishedBonusRate(purchaseYear) = Zero) =>
          [schedule |-> schedule, categorySchedules |-> categorySchedules]
            = scheduleData(allocations, totalCost, purchaseYear, FALSE, bonusRate,
                           useSection179, section179Amount, depreciationMethod)

\* Bonus elected for a year past the table: rate 0 and the 5-year basis whole.
C10_Witness ==
    /\ pc = "done"
    /\ useBonus
    /\ purchaseYear = 2028
    /\ bonusRate = Zero
    /\ categorySchedules["5year"].basis = Num(80000)
    /\ categorySchedules["5year"].bonusDepreciation = Undefined

\* The dependency list of the useMemo callback in the current state.
CurrentScheduleData ==
    scheduleData(allocations, totalCost, purchaseYear, useBonus, bonusRate,
                 useSection179, section179Amount, depreciationMethod)

\* A finished computation holds the value of scheduleData on the inputs of
\* that moment, whatever was computed before.
C11_FinishedRunIsFunctionOfInputs ==
    pc = "done" =>
        [schedule |-> schedule, categorySchedules |-> categorySchedules]
            = CurrentScheduleData

\* A computation starts from nothing: no row and no per-category figure of
\* an earlier computation is left when the next one begins.
C11_StartsFromNothing ==
    pc = "basis" =>
        /\ schedule = <<>>
        /\ categorySchedules = NoCategorySchedules
        /\ remaining179 = Undefined

\* C11: the schedule computation keeps no state between runs: every run
\* starts from nothing and ends with the value of scheduleData on its inputs
\* (allocations, total cost, service year, method, Section 179 election and
\* amount, bonus election and rate), so two runs on identical inputs, with
\* other runs in between or not, end with identical rows and identical
\* per-category figures.
C11_ResultDependsOnInputsOnly ==
    /\ []C11_StartsFromNothing
    /\ []C11_FinishedRunIsFunctionOfInputs

\* The default inputs computed again after an intervening computation on
\* other inputs (the method switched to straight-line and back).
C11_Witness ==
    /\ pc = "done"
    /\ events = 2
    /\ DefaultAllocations
    /\ totalCost = Num(1000000)
    /\ depreciationMethod = "macrs"
    /\ useBonus /\ ~useSection179
    /\ purchaseDate = [year |-> 2024, jan1 |-> TRUE]
    /\ Len(schedule) = years
    /\ categorySchedules["5year"].cumulative = StartBasis("5year")

\* The number of rows in which MACRS pays category c: the 6, 8, 16 and 28
\* entries of the 5-, 7-, 15- and 27.5-year tables, and all 40 rows for the
\* 39-year table.
MacrsRows(c) ==
    CASE c = "5year" -> 6
      [] c = "7year" -> 8
      [] c = "15year" -> 16
      [] c = "residential" -> 28
      [] c = "commercial" -> 40

\* C12: under MACRS the periodic amount of a depreciable category in the row
\* of index i is basis * table[i] inside the table and 0 in every row at or
\* past the table length (index 6, 8, 16, 28 on); land, which has no table,
\* has 0 in every row; and under either method every amount and every total
\* of every row is a number.
C12_MacrsInsideTableZeroAfter ==
    pc = "done" =>
        /\ \A i \in 1..Len(schedule) :
              /\ IsNumber(schedule[i].totalDepreciation)
              /\ \A c \in CatIds : IsNumber(schedule[i].depreciation[c])
        /\ depreciationMethod = "macrs" =>
              /\ \A y \in 0..(years - 1) : schedule[y + 1].depreciation["land"] = Zero
              /\ \A c \in Depreciable :
                    /\ Len(MACRS_RATES[LifeOf(c)]) = MacrsRows(c)
                    /\ \A y \in 0..(years - 1) :
                          PeriodicInRow(c, y) =
                              IF y < MacrsRows(c)
                              THEN RMul(categorySchedules[c].basis,
                                        Rate(MACRS_RATES[LifeOf(c)][y + 1]))
                              ELSE Zero

\* MACRS on the default form for a residential property: the 5-year asset has
\* its last table rate in the row of index 5 and nothing from index 6 on, the
\* residential building nothing from index 28 on.
C12_Witness ==
    /\ pc = "done"
    /\ depreciationMethod = "macrs"
    /\ propertyType = "residential"
    /\ totalCost = Num(1000000)
    /\ ~useBonus /\ ~useSection179
    /\ allocations["5year"] = Num(8)
    /\ schedule[6].depreciation["5year"] = Num(4608)
    /\ schedule[7].depreciation["5year"] = Zero
    /\ schedule[28].depreciation["residential"] = Num(9090)
    /\ schedule[29].depreciation["residential"] = Zero


\* The sum of the six allocation percentages.
TotalAllocation ==
    RAdd(RAdd(RAdd(allocations["land"], allocations["5year"]),
              RAdd(allocations["7year"], allocations["15year"])),
         RAdd(allocations["commercial"], allocations["residential"]))

\* The sum of the six bases held in categorySchedules.
TotalBasis ==
    RAdd(RAdd(RAdd(categorySchedules["land"].basis, categorySchedules["5year"].basis),
              RAdd(categorySchedules["7year"].basis, categorySchedules["15year"].basis)),
         RAdd(categorySchedules["commercial"].basis,
              categorySchedules["residential"].basis))

\* C13: right after the basis allocation, whatever the percentages sum to,
\* every category has a basis and the six bases sum to
\* totalCost * (sum of the percentages) / 100.
C13_AllocationConservation ==
    pc = "section179" =>
        /\ DOMAIN categorySchedules = CatIds
        /\ \A c \in CatIds : IsNumber(categorySchedules[c].basis)
        /\ TotalBasis = RDiv(RMul(totalCost, TotalAllocation), Num(100))

\* Percentages summing to 112 on a cost of 1,000,000: the bases sum to
\* 1,120,000.
C13_Witness ==
    /\ pc = "section179"
    /\ totalCost = Num(1000000)
    /\ TotalAllocation = Num(112)
    /\ TotalBasis = Num(1120000)


\* The large-life category the current property type switches off.
Inactive == IF propertyType = "commercial" THEN "residential" ELSE "commercial"

Active == IF propertyType = "commercial" THEN "commercial" ELSE "residential"

\* The category the property type switches off has allocation 0 and amount 0
\* in every row computed so far.
C14_InactiveIsZero ==
    /\ allocations[Inactive] = Zero
    /\ pc = "done" =>
          /\ Len(schedule) = years
          /\ \A i \in 1..Len(schedule) : schedule[i].depreciation[Inactive] = Zero

\* A step that changes the property type gives the newly active category the
\* whole large-life allocation, the other one 0, and leaves the remaining
\* allocations and the sum of all six as they were.
C14_TypeChangeMovesAllocation ==
    propertyType' # propertyType =>
        /\ allocations'[Active'] = RAdd(allocations["commercial"],
                                        allocations["residential"])
        /\ allocations'[Active'] = allocations[Active]
        /\ allocations'[Inactive'] = Zero
        /\ \A c \in CatIds \ {"commercial", "residential"} :
              allocations'[c] = allocations[c]
        /\ TotalAllocation' = TotalAllocation

\* C14: in every reachable state the large-life category that does not match
\* the property type has allocation 0 and amount 0 in every row, and every
\* change of the property type moves the whole large-life allocation to the
\* newly active category without changing the sum of the allocations.
C14_PropertyTypeGates ==
    /\ []C14_InactiveIsZero
    /\ [][C14_TypeChangeMovesAllocation]_vars

\* The commercial allocation edited to 20 and the type then changed to
\* residential: the 20 has moved, and with it the depreciation.
C14_Witness ==
    /\ pc = "done"
    /\ events = 2
    /\ propertyType = "residential"
    /\ allocations["residential"] = Num(20)
    /\ allocations["commercial"] = Zero
    /\ totalCost = Num(1000000)
    /\ depreciationMethod = "macrs"
    /\ schedule[1].depreciation["commercial"] = Zero
    /\ schedule[1].depreciation["residential"] = Num(7272)


\* Every allocation percentage lies in [0, 100].
C15_AllocationsInRange ==
    \A c \in CatIds :
        /\ IsNumber(allocations[c])
        /\ RLe(Zero, allocations[c])
        /\ RLe(allocations[c], Num(100))

\* x brought into [0, 100].
Clamped(x) == IF RLt(x, Zero) THEN Zero ELSE IF RLt(Num(100), x) THEN Num(100) ELSE x

\* A step that changes the allocations and not the property type is an
\* allocation edit: it changes the allocation of one enabled category, to the
\* typed value brought into [0, 100] (0 for text that is no number), and no
\* other allocation.
C15_EditChangesOneClamped ==
    (allocations' # allocations /\ propertyType' = propertyType) =>
        \E id \in CatIds \ {Inactive} :
            /\ \A c \in CatIds \ {id} : allocations'[c] = allocations[c]
            /\ \E value \in AllocationInputs :
                  allocations'[id] =
                      IF value[1] = "n" THEN Clamped(Num(value[2])) ELSE Zero

\* C15: in every reachable state every allocation lies in [0, 100], and
\* every allocation edit stores the clamped value in the edited category and
\* changes no other allocation.
C15_AllocationsClamped ==
    /\ []C15_AllocationsInRange
    /\ [][C15_EditChangesOneClamped]_vars

\* 150 typed for the 5-year assets and -5 for the 7-year assets: stored as
\* 100 and 0, the other allocations as they started.
C15_Witness ==
    /\ pc = "done"
    /\ events = 2
    /\ allocations["5year"] = Num(100)
    /\ allocations["7year"] = Zero
    /\ allocations["land"] = Num(15)
    /\ allocations["15year"] = Num(12)
    /\ allocations["commercial"] = Num(60)


\* C16: once the Section 179 step has run, and after the bonus step as well,
\* for every category the Section 179 amount, the bonus amount (each 0 when
\* not taken) and the basis left add up to allocation% * totalCost / 100;
\* a category outside the 5-, 7- and 15-year classes takes neither deduction
\* and keeps its whole basis.
C16_BasisConserved ==
    After179 =>
        \A c \in CatIds :
            /\ RAdd(RAdd(Taken179(c), TakenBonus(c)), categorySchedules[c].basis)
                  = StartBasis(c)
            /\ c \notin Eligible =>
                  /\ categorySchedules[c].section179 = Undefined
                  /\ categorySchedules[c].bonusDepreciation = Undefined
                  /\ categorySchedules[c].basis = StartBasis(c)

\* Section 179 of 100,000 and 60 % bonus on the default allocations: the
\* 5-year assets give 80,000 to Section 179, the 7-year assets 20,000 to
\* Section 179 and 18,000 of the 30,000 left to bonus, keeping 12,000.
C16_Witness ==
    /\ pc = "done"
    /\ totalCost = Num(1000000)
    /\ useSection179 /\ section179Amount = Num(100000)
    /\ useBonus /\ bonusRate = <<3, 5>>
    /\ categorySchedules["5year"].section179 = Num(80000)
    /\ categorySchedules["5year"].basis = Zero
    /\ categorySchedules["7year"].section179 = Num(20000)
    /\ categorySchedules["7year"].bonusDepreciation = Num(18000)
    /\ categorySchedules["7year"].basis = Num(12000)
    /\ categorySchedules["commercial"].basis = Num(600000)


\* Every running total of the first k entries of seq, k = from..Len(seq),
\* stays at or below bound; acc is the total of the entries before from.
RECURSIVE PrefixesWithin(_, _, _, _)
PrefixesWithin(seq, from, acc, bound) ==
    IF from > Len(seq) THEN TRUE
    ELSE LET total == RAdd(acc, seq[from])
         IN  RLe(total, bound) /\ PrefixesWithin(seq, from + 1, total, bound)

\* C17 as stated: with a non-negative total cost and Section 179 amount (the
\* allocations are always in [0, 100]), under either method the depreciation
\* of every category accumulated over any prefix of the 40 rows, Section 179
\* and bonus included, is at most the category's initial basis.
C17_NeverBeyondCost ==
    (pc = "done" /\ NonNegativeInputs) =>
        \A c \in CatIds :
            /\ Len(Column(c)) = years
            /\ PrefixesWithin(Column(c), 1, Zero, StartBasis(c))
            /\ RLe(categorySchedules[c].cumulative, StartBasis(c))


\* C18: with a non-negative total cost (the allocations are always in
\* [0, 100]) and whatever Section 179 amount is typed, negative or above the
\* eligible basis included: every basis is >= 0 when allocated, after the
\* Section 179 step and after the bonus step, every Section 179 and bonus
\* amount taken is >= 0, and every amount and total of every row is >= 0.
C18_NoNegativeAmount ==
    (RLe(Zero, totalCost) /\ pc # "basis") =>
        /\ \A c \in CatIds :
              /\ RLe(Zero, categorySchedules[c].basis)
              /\ categorySchedules[c].section179 # Undefined =>
                    RLe(Zero, categorySchedules[c].section179)
              /\ categorySchedules[c].bonusDepreciation # Undefined =>
                    RLe(Zero, categorySchedules[c].bonusDepreciation)
              /\ RLe(Zero, categorySchedules[c].cumulative)
        /\ \A i \in 1..Len(schedule) :
              /\ RLe(Zero, schedule[i].totalDepreciation)
              /\ \A c \in CatIds : RLe(Zero, schedule[i].depreciation[c])

\* Section 179 elected with -5000 typed as its amount: no category takes a
\* Section 179 deduction, the bonus applies to the whole basis, and the first
\* row is positive.
C18_Witness ==
    /\ pc = "done"
    /\ totalCost = Num(1000000)
    /\ useSection179 /\ section179Amount = Num(-5000)
    /\ \A c \in Eligible : categorySchedules[c].section179 = Undefined
    /\ useBonus
    /\ categorySchedules["5year"].bonusDepreciation = Num(48000)
    /\ categorySchedules["5year"].basis = Num(32000)
    /\ schedule[1].depreciation["5year"] = Num(54400)

====
